---- MODULE Spec2Model ----
(***************************************************************************)
(* A model of the command entry points of animatediff-cli-prompt-travel:   *)
(* `generate` and `tile_upscale` of src/animatediff/cli.py, with the       *)
(* process-wide pipeline cache (g_pipeline, last_model_path) they share,   *)
(* and `get_base_model` of src/animatediff/utils/model.py.                 *)
(*                                                                         *)
(* Text is a sequence of tokens, a dict is the sequence of its items in    *)
(* insertion order, a path is the sequence of its segments.                *)
(***************************************************************************)
EXTENDS Integers, Sequences, FiniteSets, TLC

\* ---------------------------------------------------------------- bounds
\* --length takes 1..9999; the model explores 1..MaxLength.
MaxLength == 2
\* --repeats takes 1..99; the model explores 1..MaxRepeats.
MaxRepeats == 3

\* ------------------------------------------------------ program constants
\* The cap on context for a v1 motion module.
V1MaxContext == 24
\* The "random" seed sentinel.
RandomSeed == -1
\* Python's None for the Optional[int] options --context, --overlap, --stride.
Unset == -1
\* The motion module's native training window, the default context.
NativeWindow == 16

\* ------------------------------------------------------------ generic helpers
Range(s) == {s[i] : i \in DOMAIN s}

\* a // b for b > 0 (Python floor division on non-negative a).
FloorDiv(a, b) == a \div b

\* ---------------------------------------------------------- str <-> int
Digits == <<"0", "1", "2", "3", "4", "5", "6", "7", "8", "9">>

IsDigit(c) == \E d \in 1..10 : Digits[d] = c

DigitVal(c) == (CHOOSE d \in 1..10 : Digits[d] = c) - 1

\* f"{idx}" for idx >= 0: the decimal digits, most significant first.
RECURSIVE IntToStr(_)
IntToStr(n) ==
    IF n < 10 THEN <<Digits[n + 1]>>
    ELSE IntToStr(n \div 10) \o <<Digits[(n % 10) + 1]>>

\* The digits of a key after its sign.
KeyDigits(k) ==
    IF Len(k) > 0 /\ k[1] \in {"-", "+"} THEN Tail(k) ELSE k

\* Whether int(k) returns: an optional sign followed by one or more digits.
\* Any other key makes int(k) raise ValueError.
IsIntLiteral(k) ==
    /\ Len(KeyDigits(k)) > 0
    /\ \A i \in DOMAIN KeyDigits(k) : IsDigit(KeyDigits(k)[i])

RECURSIVE DigitsValue(_)
DigitsValue(ds) ==
    IF Len(ds) = 0 THEN 0
    ELSE 10 * DigitsValue(SubSeq(ds, 1, Len(ds) - 1)) + DigitVal(ds[Len(ds)])

\* int(k) for a key that is an integer literal.
ParseInt(k) ==
    IF k[1] = "-" THEN 0 - DigitsValue(KeyDigits(k)) ELSE DigitsValue(KeyDigits(k))

\* ------------------------------------------------------------ Python dict
\* A dict is the sequence of its items [k, v] in insertion order, keys unique.
DictKeys(d) == {d[i].k : i \in DOMAIN d}

DictGet(d, key) == d[CHOOSE i \in DOMAIN d : d[i].k = key].v

\* d[key] = val: an existing key keeps its place, a new key goes last.
DictSet(d, key, val) ==
    IF key \in DictKeys(d)
    THEN [i \in DOMAIN d |-> IF d[i].k = key THEN [k |-> key, v |-> val] ELSE d[i]]
    ELSE Append(d, [k |-> key, v |-> val])

\* ------------------------------------------------------------------ paths
\* The working directory of the process.
Cwd == <<"/", "work">>

\* Path.resolve() on the segments of a relative path: "." is dropped and
\* ".." removes the segment before it.
RECURSIVE Normalise(_, _)
Normalise(done, rest) ==
    IF Len(rest) = 0 THEN done
    ELSE IF rest[1] = "." THEN Normalise(done, Tail(rest))
    ELSE IF rest[1] = ".."
         THEN Normalise(IF Len(done) > 1 THEN SubSeq(done, 1, Len(done) - 1) ELSE done,
                        Tail(rest))
    ELSE Normalise(Append(done, rest[1]), Tail(rest))

Resolve(p) == IF Len(p) > 0 /\ p[1] = "/" THEN Normalise(<<"/">>, Tail(p))
              ELSE Normalise(Cwd, p)

\* ------------------------------------------------------------- prompt text
\* A prompt is the sequence of its tokens.  The tokens that the pattern
\* <lora:([^:]+):([0-9.]+)> matches:
LoraTags == {"<lora:L1:0.5>", "<lora:L1:1.0>", "<lora:L2:0.3>", "<lora:L3:0.5>"}

\* Group 1 of the pattern: the LoRA name.
LoraName(tag) ==
    CASE tag = "<lora:L1:0.5>" -> "L1"
      [] tag = "<lora:L1:1.0>" -> "L1"
      [] tag = "<lora:L2:0.3>" -> "L2"
      [] tag = "<lora:L3:0.5>" -> "L3"

\* float() of group 2 of the pattern, in tenths.
LoraWeight(tag) ==
    CASE tag = "<lora:L1:0.5>" -> 5
      [] tag = "<lora:L1:1.0>" -> 10
      [] tag = "<lora:L2:0.3>" -> 3
      [] tag = "<lora:L3:0.5>" -> 5

\* re.findall: the tags of a prompt, in order.
FindLoraTags(prompt) == SelectSeq(prompt, LAMBDA tok : tok \in LoraTags)

\* re.sub(..., "", prompt): the prompt without its tags.
StripLoraTags(prompt) == SelectSeq(prompt, LAMBDA tok : tok \notin LoraTags)

\* The token of a wildcard reference, and what the wildcard file offers.
WildToken == "__w__"

WildChoices == {"w1", "w2"}

\* replace_wild_card: every wildcard reference becomes one of the offered
\* words, drawn at random for each reference.
ReplaceWildCard(text) ==
    {s \in [DOMAIN text -> Range(text) \cup WildChoices] :
        \A i \in DOMAIN text :
            IF text[i] = WildToken THEN s[i] \in WildChoices ELSE s[i] = text[i]}

\* The loop over prompt_map.keys() that rewrites every value.
WildCardConversion(pm) ==
    {m \in [DOMAIN pm -> [k : DictKeys(pm),
                          v : UNION {ReplaceWildCard(pm[i].v) : i \in DOMAIN pm}]] :
        \A i \in DOMAIN pm : m[i].k = pm[i].k /\ m[i].v \in ReplaceWildCard(pm[i].v)}

\* head_prompt / tail_prompt: replaced only when truthy (non-empty).
WildCardDecoration(text) == IF Len(text) > 0 THEN ReplaceWildCard(text) ELSE {text}

\* ------------------------------------------------- generate: window options
\* Whether the motion module of the config is a v2 module.
is_v2_motion_module(motion_module) == motion_module = "mm_sd_v15_v2"

\* Defaults for the options that were not supplied.
get_context_params(length, context, overlap, stride) ==
    LET c == IF context = Unset THEN NativeWindow ELSE context
    IN  [context |-> c,
         overlap |-> IF overlap = Unset THEN FloorDiv(c, 4) ELSE overlap,
         stride  |-> IF stride = Unset THEN 0 ELSE stride]

\* The guard of the v1 cap.
V1Capped(is_v2, context) == (~is_v2) /\ (context > V1MaxContext)

\* A cap that is logged but not applied.
ClampContext_Uncapped(is_v2, context) == context

\* The context after the v1 cap.
ClampContext(is_v2, context) ==
    IF V1Capped(is_v2, context) THEN V1MaxContext ELSE context

\* ------------------------------------------------- generate: prompt set-up
\* "old prompt": each entry of the legacy prompt list goes under f"{idx}".
RECURSIVE MergeOldPrompt(_, _, _)
MergeOldPrompt(prompt, idx, pm) ==
    IF idx >= Len(prompt) THEN pm
    ELSE MergeOldPrompt(prompt, idx + 1, DictSet(pm, IntToStr(idx), prompt[idx + 1]))

\* "lora parsing", second half: the prompt map without its tags.
LoraStrippedPrompts(pm) ==
    [i \in DOMAIN pm |-> [k |-> pm[i].k, v |-> StripLoraTags(pm[i].v)]]

\* "lora parsing", first half: lora_map[lora] = weight over the tags of the
\* prompts in iteration order, the last tag of a name winning.
RECURSIVE TagsToMap(_, _)
TagsToMap(tags, acc) ==
    IF Len(tags) = 0 THEN acc
    ELSE TagsToMap(Tail(tags), DictSet(acc, LoraName(tags[1]), LoraWeight(tags[1])))

RECURSIVE ParsedLoraMap(_, _)
ParsedLoraMap(pm, acc) ==
    IF Len(pm) = 0 THEN acc
    ELSE ParsedLoraMap(Tail(pm), TagsToMap(FindLoraTags(pm[1].v), acc))

\* lora_path = None.
NoLoraPath == <<>>

\* The .safetensors files under the configured lora_path, sorted, and the
\* stem of each file.
LoraFiles == <<"lora/L1.safetensors", "lora/sub/L2.safetensors">>

LoraStem(file) ==
    CASE file = "lora/L1.safetensors" -> "L1"
      [] file = "lora/sub/L2.safetensors" -> "L2"

\* if model_config.lora_path != None: sorted(glob(lora_path/**/*.safetensors)).
GlobLoraFiles(lora_path) == IF lora_path /= NoLoraPath THEN LoraFiles ELSE <<>>

\* A loop that leaves alone a file the config's lora_map already names.
RECURSIVE SelectLoraFiles_KeepsConfig(_, _, _)
SelectLoraFiles_KeepsConfig(files, parsed, config_lora_map) ==
    IF Len(files) = 0 THEN config_lora_map
    ELSE SelectLoraFiles_KeepsConfig(
            Tail(files), parsed,
            IF LoraStem(files[1]) \in DictKeys(parsed) /\ files[1] \notin DictKeys(config_lora_map)
            THEN DictSet(config_lora_map, files[1], DictGet(parsed, LoraStem(files[1])))
            ELSE config_lora_map)

\* The loop over lora_files: a file whose stem is tagged enters lora_map.
RECURSIVE SelectLoraFiles(_, _, _)
SelectLoraFiles(files, parsed, config_lora_map) ==
    IF Len(files) = 0 THEN config_lora_map
    ELSE SelectLoraFiles(
            Tail(files), parsed,
            IF LoraStem(files[1]) \in DictKeys(parsed)
            THEN DictSet(config_lora_map, files[1], DictGet(parsed, LoraStem(files[1])))
            ELSE config_lora_map)

\* --------------------------------------------------------- generate: seeds
\* What torch.seed() may return: a non-negative 64-bit number.
TorchSeeds == {11, 12}

\* A "fix seed" that leaves the list as configured.
FixSeed_Skipped(seed) == {seed}

\* "fix seed": every -1 of the seed list becomes a fresh torch.seed().
FixSeed(seed) ==
    {s \in [DOMAIN seed -> Range(seed) \cup TorchSeeds] :
        \A i \in DOMAIN seed :
            IF seed[i] = RandomSeed THEN s[i] \in TorchSeeds ELSE s[i] = seed[i]}

\* The seed of one repeat: if seed == -1: seed = torch.seed().
GenerationSeed(seed) == IF seed = RandomSeed THEN TorchSeeds ELSE {seed}

\* --------------------------------------------- generate: per-repeat prompts
\* A decoration that does not test head and tail for emptiness.
Decorate_Unguarded(head, pr, tail) == head \o <<",">> \o pr \o <<",">> \o tail

\* head_prompt + "," + pr + "," + tail_prompt, each part only when truthy.
Decorate(head, pr, tail) ==
    LET p1 == IF Len(head) > 0 THEN head \o <<",">> \o pr ELSE pr
    IN  IF Len(tail) > 0 THEN p1 \o <<",">> \o tail ELSE p1

\* The filter on a configured key: if int(k) < length.
KeyframeKept(k, length) == ParseInt(k) < length

\* The integer-keyed prompt map of one repeat.
RECURSIVE BuildPromptMap(_, _, _, _, _)
BuildPromptMap(pm, head, tail, length, acc) ==
    IF Len(pm) = 0 THEN acc
    ELSE BuildPromptMap(
            Tail(pm), head, tail, length,
            IF KeyframeKept(pm[1].k, length)
            THEN DictSet(acc, ParseInt(pm[1].k), Decorate(head, pm[1].v, tail))
            ELSE acc)

\* int(k) raises ValueError for some configured key.
HasBadKey(pm) == \E i \in DOMAIN pm : ~IsIntLiteral(pm[i].k)

\* ------------------------------------------- run_inference: window schedule
\* 2^n, the frame step of the windows of stride level n.
RECURSIVE Pow2(_)
Pow2(n) == IF n = 0 THEN 1 ELSE 2 * Pow2(n - 1)

\* A window that keeps the indices past the last frame.
ContextWindow_Padded(start, context, step, duration) ==
    [i \in 1..context |-> start + (i - 1) * step]

\* One window: context indices from start, step apart, those past the last
\* frame left out (a final window is shorter, never padded).
ContextWindow(start, context, step, duration) ==
    SelectSeq([i \in 1..context |-> start + (i - 1) * step], LAMBDA x : x < duration)

\* The windows of one stride level: each starts overlap indices before the
\* span of the one before it ends, until the last frame is passed.
RECURSIVE LevelWindows(_, _, _, _, _)
LevelWindows(duration, context, overlap, step, start) ==
    IF start >= duration THEN <<>>
    ELSE <<ContextWindow(start, context, step, duration)>>
         \o LevelWindows(duration, context, overlap, step, start + context * step - overlap)

RECURSIVE StrideLevels(_, _, _, _, _)
StrideLevels(duration, context, overlap, stride, level) ==
    IF level > stride THEN <<>>
    ELSE LevelWindows(duration, context, overlap, Pow2(level), 0)
         \o StrideLevels(duration, context, overlap, stride, level + 1)

\* The schedule of a run: one window when the frames fit the context,
\* else the windows of the stride levels 0..stride.
ContextWindows(duration, context, overlap, stride) ==
    IF duration <= context THEN <<[i \in 1..duration |-> i - 1]>>
    ELSE StrideLevels(duration, context, overlap, stride, 0)

\* The window options the scheduler refuses.
InvalidWindowConfig(duration, context, overlap) ==
    overlap >= context \/ context <= 0 \/ duration <= 0

\* ----------------------------------------- run_inference: prompt resolution
\* The keyframe indices in ascending order.
RECURSIVE SortedKeyframes(_)
SortedKeyframes(keys) ==
    IF keys = {} THEN <<>>
    ELSE LET first == CHOOSE x \in keys : \A y \in keys : x <= y
         IN  <<first>> \o SortedKeyframes(keys \ {first})

\* The scan over the sorted keyframes: the last one not after frame f.
RECURSIVE HoldLast(_, _, _)
HoldLast(keys, f, held) ==
    IF Len(keys) = 0 \/ keys[1] > f THEN held
    ELSE HoldLast(Tail(keys), f, keys[1])

\* A resolver that takes the keyframe nearest to f, before or after it.
ResolvePrompt_Nearest(prompt_map, f) ==
    LET keys == DictKeys(prompt_map)
        dist(k) == IF k > f THEN k - f ELSE f - k
        near == {k \in keys : \A j \in keys : dist(k) <= dist(j)}
    IN  DictGet(prompt_map, CHOOSE k \in near : \A j \in near : k <= j)

\* The prompt of frame f: the text of the keyframe held at f, the earliest
\* keyframe when f precedes them all.
ResolvePrompt(prompt_map, f) ==
    LET keys == SortedKeyframes(DictKeys(prompt_map))
    IN  DictGet(prompt_map, HoldLast(keys, f, keys[1]))

\* ------------------------------------------------------------ get_base_model
\* The directory the base models are downloaded to.
HfModelDir == <<"data", "models", "huggingface">>

\* model_save_dir: local_dir / <last segment of the name>, resolved.
ModelSaveDir(name, local_dir) == Resolve(Append(local_dir, name[Len(name)]))

\* model_is_repo_id: the name is no directory holding model_index.json.
ModelIsRepoId(name, fs) == Resolve(name) \notin fs

\* Whether get_base_model downloads.
BaseModelDownloads(name, local_dir, fs) ==
    ModelIsRepoId(name, fs) /\ ModelSaveDir(name, local_dir) \notin fs

\* The path get_base_model returns.
get_base_model(name, local_dir, fs) ==
    IF ModelIsRepoId(name, fs) THEN ModelSaveDir(name, local_dir) ELSE name

\* The directories holding model_index.json after get_base_model.
BaseModelStore(name, local_dir, fs) ==
    IF BaseModelDownloads(name, local_dir, fs)
    THEN fs \cup {ModelSaveDir(name, local_dir)} ELSE fs

\* ------------------------------------------------------------------ state
VARIABLES
    g_pipeline,         \* global: the resident pipeline and what it was built from
    last_model_path,    \* global: the resolved path recorded for g_pipeline
    model_index,        \* file system: the directories holding model_index.json
    controlnet_loaded,  \* accelerator: ControlNet models are loaded on the pipeline
    cache_dirty,        \* accelerator: scratch memory of an inference is not released
    pc,                 \* where the running command is
    args,               \* the options of the running command
    config_file,        \* the config file as get_model_config loaded it
    model_config,       \* the ModelConfig object of the running command
    window,             \* generate's locals context, overlap, stride
    base_model_path,    \* generate's local base_model_path
    conditioning,       \* generate's locals controlnet_image_map, ..., ip_adapter_map
    warnings,           \* the warnings logged by the running command
    pipeline_event,     \* what "beware the pipeline" did in this invocation
    raw_prompt_json,    \* save_dir/raw_prompt.json: <<>> or <<the config written>>
    prompt_json,        \* save_dir/prompt.json: <<>> or <<the config written>>
    gen_num,            \* generate's global generation index
    rep,                \* the iterations of "for _ in range(repeats)" begun and left
    calls,              \* the arguments of each run_inference call, in order
    inference,          \* per completed run_inference: its windows and per-frame prompts
    outputs,            \* generate's list outputs
    error,              \* the exception that left the command, or "none"
    merged_saved,       \* final.gif was written
    returned,           \* the command returned save_dir
    us                  \* tile_upscale's pipeline and its run_upscale calls

globals == <<g_pipeline, last_model_path, model_index, controlnet_loaded, cache_dirty>>

locals == <<args, config_file, model_config, window, base_model_path, conditioning, warnings, pipeline_event,
            raw_prompt_json, prompt_json, gen_num, rep, calls, inference, outputs,
            error, merged_saved, returned, us>>

vars == <<globals, pc, locals>>

\* ----------------------------------------------------------------- inputs
\* A config file as get_model_config loads it.
DefaultConfig ==
    [motion_module  |-> "mm_sd_v15",
     path           |-> <<"models", "a.safetensors">>,
     seed           |-> <<5>>,
     n_prompt       |-> <<"n1">>,
     prompt         |-> <<>>,
     prompt_map     |-> <<[k |-> <<"0">>, v |-> <<"a">>]>>,
     head_prompt    |-> <<>>,
     tail_prompt    |-> <<>>,
     lora_path      |-> <<"lora">>,
     lora_map       |-> <<>>,
     steps          |-> 20,
     guidance_scale |-> 7,
     controlnet_map |-> "controlnet_map",
     ip_adapter_map |-> "ip_adapter_map",
     upscale_config |-> <<>>]

\* The options of a command, with the defaults of the typer declarations.
DefaultArgs ==
    [command            |-> "generate",
     model_name_or_path |-> <<"runwayml", "stable-diffusion-v1-5">>,
     width              |-> 512,
     height             |-> 512,
     length             |-> MaxLength,
     context            |-> Unset,
     overlap            |-> Unset,
     stride             |-> Unset,
     repeats            |-> 1,
     save_merged        |-> FALSE,
     n_frames           |-> 0]

MotionModules == {"mm_sd_v15", "mm_sd_v15_v2"}

\* Two spellings of one checkpoint, and another checkpoint.
ModelPaths == {<<"models", "a.safetensors">>,
               <<"models", "sub", "..", "a.safetensors">>,
               <<"models", "b.safetensors">>}

\* Two repo IDs and a local directory that holds model_index.json.
LocalModel == <<"/", "work", "local", "sd">>

ModelNames == {<<"runwayml", "stable-diffusion-v1-5">>,
               <<"other", "stable-diffusion-v1-5">>,
               <<"local", "sd">>}

\* (context, overlap, stride) as given on the command line; the last, an
\* overlap above the command line's maximum, as a caller of generate gives it.
WindowOptions == {<<Unset, Unset, Unset>>, <<32, Unset, Unset>>,
                  <<24, 4, 1>>, <<25, 12, 0>>, <<8, 12, 0>>, <<32, 24, 0>>}

\* (context, overlap, stride) of runs longer than their context.
LongWindowOptions == {<<3, 1, 0>>, <<3, 2, 1>>, <<4, 1, 2>>, <<4, Unset, Unset>>,
                      <<2, 1, Unset>>}

SeedLists == {<<>>, <<5>>, <<RandomSeed>>, <<5, RandomSeed>>, <<RandomSeed, RandomSeed>>}

NPromptLists == {<<>>, <<"n1">>, <<"n1", "n2">>}

Item(key, val) == [k |-> key, v |-> val]

\* (legacy prompt list, prompt_map) pairs.
PromptSetups ==
    {[prompt |-> <<>>, prompt_map |-> <<>>],
     [prompt |-> <<>>, prompt_map |-> <<Item(<<"0">>, <<"a">>), Item(<<"1">>, <<"b">>)>>],
     [prompt |-> <<>>, prompt_map |-> <<Item(<<"1">>, <<"b">>), Item(<<"0", "1">>, <<"c">>)>>],
     [prompt |-> <<>>, prompt_map |-> <<Item(<<"9">>, <<"a">>)>>],
     [prompt |-> <<>>, prompt_map |-> <<Item(<<"-", "1">>, <<"a">>), Item(<<"0">>, <<"b">>)>>],
     [prompt |-> <<>>, prompt_map |-> <<Item(<<"x">>, <<"a">>)>>],
     [prompt |-> <<<<"p">>>>, prompt_map |-> <<Item(<<"1">>, <<"b">>), Item(<<"0">>, <<"a">>)>>],
     [prompt |-> <<>>,
      prompt_map |-> <<Item(<<"0">>, <<"a", "<lora:L1:0.5>", WildToken>>),
                       Item(<<"1">>, <<"<lora:L3:0.5>", "b", "<lora:L1:1.0>">>)>>]}

\* (head_prompt, tail_prompt) pairs; None and "" are both the empty text.
Decorations == {<<<<>>, <<>>>>, <<<<"h">>, <<>>>>, <<<<>>, <<"t">>>>,
                <<<<"h", WildToken>>, <<"t">>>>}

\* upscale_config: which ControlNets tile_upscale is told about.
UpscaleConfigs ==
    {<<>>,
     <<Item("controlnet_ref", TRUE)>>,
     <<Item("controlnet_tile", FALSE)>>,
     <<Item("controlnet_tile", FALSE), Item("controlnet_ref", TRUE)>>,
     <<Item("controlnet_tile", FALSE), Item("controlnet_line_anime", TRUE)>>,
     <<Item("controlnet_ip2p", TRUE), Item("controlnet_tile", FALSE)>>}

Input(a, c) == [args |-> a, config |-> c]

\* The invocations of generate the model explores: each family varies the
\* options and config fields one part of generate reads, the rest at defaults.
PipelineInputs ==
    {Input([DefaultArgs EXCEPT !.model_name_or_path = name],
           [DefaultConfig EXCEPT !.motion_module = mm, !.path = path]) :
        name \in ModelNames, mm \in MotionModules, path \in ModelPaths}

WindowInputs ==
    {Input([DefaultArgs EXCEPT !.context = w[1], !.overlap = w[2], !.stride = w[3],
                               !.repeats = 2, !.save_merged = sm],
           [DefaultConfig EXCEPT !.motion_module = mm]) :
        w \in WindowOptions, sm \in BOOLEAN, mm \in MotionModules}

SeedInputs ==
    {Input([DefaultArgs EXCEPT !.repeats = r],
           [DefaultConfig EXCEPT !.seed = sd, !.n_prompt = np]) :
        r \in 1..MaxRepeats, sd \in SeedLists, np \in NPromptLists}

PromptInputs ==
    {Input([DefaultArgs EXCEPT !.length = len, !.repeats = 2, !.save_merged = sm],
           [DefaultConfig EXCEPT !.prompt = ps.prompt, !.prompt_map = ps.prompt_map,
                                 !.head_prompt = d[1], !.tail_prompt = d[2]]) :
        len \in 1..MaxLength, sm \in BOOLEAN, ps \in PromptSetups, d \in Decorations}

\* Runs of more frames than the context holds.
ScheduleInputs ==
    {Input([DefaultArgs EXCEPT !.length = len, !.context = w[1], !.overlap = w[2],
                               !.stride = w[3]],
           DefaultConfig) :
        len \in {MaxLength + 3, MaxLength + 5}, w \in LongWindowOptions}

\* Prompt travel over keyframes some frames apart.
TravelSetups ==
    {<<Item(<<"0">>, <<"a">>), Item(<<"5">>, <<"b">>), Item(<<"1", "0">>, <<"c">>)>>,
     <<Item(<<"1", "0">>, <<"c">>), Item(<<"0">>, <<"a">>), Item(<<"5">>, <<"b">>)>>,
     <<Item(<<"5">>, <<"b">>), Item(<<"2">>, <<"a">>)>>}

TravelInputs ==
    {Input([DefaultArgs EXCEPT !.length = len],
           [DefaultConfig EXCEPT !.prompt_map = pm, !.head_prompt = <<"h">>]) :
        len \in {6, 12}, pm \in TravelSetups}

\* Configs with LoRA tags in the prompts, with and without a lora_path and
\* with lora_map entries of their own.
LoraMaps == {<<>>, <<Item("lora/L1.safetensors", 8)>>, <<Item("share/L4.safetensors", 3)>>}

LoraInputs ==
    {Input(DefaultArgs,
           [DefaultConfig EXCEPT !.prompt = ps.prompt, !.prompt_map = ps.prompt_map,
                                 !.lora_path = lp, !.lora_map = lm]) :
        ps \in {[prompt |-> <<<<"a", "<lora:L2:0.3>">>>>,
                 prompt_map |-> <<Item(<<"1">>, <<"b">>)>>],
                [prompt |-> <<>>,
                 prompt_map |-> <<Item(<<"0">>, <<"a", "<lora:L1:0.5>">>),
                                  Item(<<"1">>, <<"<lora:L3:0.5>", "b", "<lora:L1:1.0>">>)>>]},
        lp \in {<<"lora">>, NoLoraPath}, lm \in LoraMaps}

GenerateInputs ==
    PipelineInputs \cup WindowInputs \cup SeedInputs \cup PromptInputs
        \cup ScheduleInputs \cup TravelInputs \cup LoraInputs

\* The invocations of tile_upscale the model explores.
UpscaleInputs ==
    {Input([DefaultArgs EXCEPT !.command = "tile_upscale", !.width = wh[1],
                               !.height = wh[2], !.n_frames = MaxLength],
           [DefaultConfig EXCEPT !.upscale_config = uc]) :
        wh \in {<<-1, -1>>, <<512, -1>>}, uc \in UpscaleConfigs}
    \cup
    {Input([DefaultArgs EXCEPT !.command = "tile_upscale", !.n_frames = n],
           [DefaultConfig EXCEPT !.prompt_map = ps.prompt_map, !.seed = sd,
                                 !.head_prompt = <<"h">>]) :
        n \in 0..MaxLength, ps \in PromptSetups, sd \in {<<5>>, <<RandomSeed>>, <<>>}}

\* ------------------------------------------------------------------- Init
\* g_pipeline = None.
NoPipeline ==
    [resident |-> FALSE, path |-> <<>>, motion_module |-> "", base_model |-> <<>>,
     lora_map |-> <<>>]

NoUpscale == [created |-> FALSE, flags |-> <<>>, saved |-> <<>>, calls |-> <<>>]

NoConditioning == [controlnet_image_map |-> <<>>, ip_adapter_map |-> <<>>]

NoWindow == [context |-> Unset, overlap |-> Unset, stride |-> Unset]

\* The locals of a command that has not started.
LocalsInit ==
    /\ args = DefaultArgs
    /\ config_file = DefaultConfig
    /\ model_config = DefaultConfig
    /\ window = NoWindow
    /\ base_model_path = <<>>
    /\ conditioning = NoConditioning
    /\ warnings = <<>>
    /\ pipeline_event = "none"
    /\ raw_prompt_json = <<>>
    /\ prompt_json = <<>>
    /\ gen_num = 0
    /\ rep = 0
    /\ calls = <<>>
    /\ inference = <<>>
    /\ outputs = <<>>
    /\ error = "none"
    /\ merged_saved = FALSE
    /\ returned = FALSE
    /\ us = NoUpscale

Init ==
    /\ g_pipeline = NoPipeline
    /\ last_model_path = <<>>
    /\ model_index = {LocalModel}
    /\ controlnet_loaded = FALSE
    /\ cache_dirty = FALSE
    /\ pc = "idle"
    /\ LocalsInit

\* ---------------------------------------------------------------- generate
\* controlnet_preprocess and ip_adapter_preprocess: the conditioning maps of
\* the run, made once before the loop from the config and the frame size.
Conditioning(config, a) ==
    [controlnet_image_map |-> <<config.controlnet_map, a.width, a.height, a.length>>,
     ip_adapter_map       |-> <<config.ip_adapter_map, a.width, a.height, a.length>>]

\* From the entry of generate to the preprocessing of the conditioning
\* images: the config is loaded, the window options resolved and capped, the
\* base model fetched, the legacy prompts merged and the LoRA tags parsed.
GenerateBegin(inp) ==
    /\ pc = "idle"
    /\ LET cfg    == inp.config
           a      == inp.args
           is_v2  == is_v2_motion_module(cfg.motion_module)
           cp     == get_context_params(a.length, a.context, a.overlap, a.stride)
           merged == MergeOldPrompt(cfg.prompt, 0, cfg.prompt_map)
           parsed == ParsedLoraMap(merged, <<>>)
       IN  /\ args' = a
           /\ config_file' = cfg
           /\ window' = [cp EXCEPT !.context = ClampContext(is_v2, cp.context)]
           /\ warnings' = IF V1Capped(is_v2, cp.context)
                          THEN Append(warnings, "v1 context capped") ELSE warnings
           /\ base_model_path' = get_base_model(a.model_name_or_path, HfModelDir, model_index)
           /\ model_index' = BaseModelStore(a.model_name_or_path, HfModelDir, model_index)
           /\ model_config' = [cfg EXCEPT
                                 !.prompt_map = LoraStrippedPrompts(merged),
                                 !.lora_map = SelectLoraFiles(GlobLoraFiles(cfg.lora_path), parsed,
                                                             cfg.lora_map)]
           /\ conditioning' = Conditioning(cfg, a)
    /\ pc' = "pipeline"
    /\ UNCHANGED <<g_pipeline, last_model_path, controlnet_loaded, cache_dirty,
                   pipeline_event, raw_prompt_json, prompt_json, gen_num, rep, calls, inference,
                   outputs, error, merged_saved, returned, us>>

\* A test that looks at g_pipeline alone.
NeedsCreate_OnlyWhenNone(pipeline, last, path) == ~pipeline.resident

\* The test of "beware the pipeline".
NeedsCreate(pipeline, last, path) ==
    (~pipeline.resident) \/ (last /= Resolve(path))

\* What create_pipeline builds the pipeline from.
CreatedPipeline(base_model, config) ==
    [resident |-> TRUE, path |-> Resolve(config.path),
     motion_module |-> config.motion_module, base_model |-> base_model,
     lora_map |-> config.lora_map]

\* create_pipeline returns; the ControlNet models are loaded and the pipeline
\* is sent to the device.
PipelineCreate ==
    /\ pc = "pipeline"
    /\ NeedsCreate(g_pipeline, last_model_path, model_config.path)
    /\ g_pipeline' = CreatedPipeline(base_model_path, model_config)
    /\ last_model_path' = Resolve(model_config.path)
    /\ pipeline_event' = "created"
    /\ controlnet_loaded' = TRUE
    /\ pc' = "save"
    /\ UNCHANGED <<model_index, cache_dirty, args, config_file, model_config, window, base_model_path,
                   conditioning, warnings, raw_prompt_json, prompt_json, gen_num, rep, calls, inference, outputs,
                   error, merged_saved, returned, us>>

\* create_pipeline raises: neither global is assigned.
PipelineCreateFails ==
    /\ pc = "pipeline"
    /\ NeedsCreate(g_pipeline, last_model_path, model_config.path)
    /\ pipeline_event' = "create_failed"
    /\ error' = "PipelineError"
    /\ pc' = "raised"
    /\ UNCHANGED <<globals, args, config_file, model_config, window, base_model_path, conditioning, warnings,
                   raw_prompt_json, prompt_json, gen_num, rep, calls, inference, outputs,
                   merged_saved, returned, us>>

\* The resident pipeline is kept and its text embeddings are reloaded; the
\* ControlNet models are loaded.
PipelineReuse ==
    /\ pc = "pipeline"
    /\ ~NeedsCreate(g_pipeline, last_model_path, model_config.path)
    /\ pipeline_event' = "reused"
    /\ controlnet_loaded' = TRUE
    /\ pc' = "save"
    /\ UNCHANGED <<g_pipeline, last_model_path, model_index, cache_dirty, args, config_file,
                   model_config, window, base_model_path, conditioning, warnings, raw_prompt_json,
                   prompt_json, gen_num, rep, calls, inference, outputs, error, merged_saved,
                   returned, us>>

\* raw_prompt.json is written, the seeds are fixed, the wildcards replaced,
\* prompt.json is written and the loop variables are set up.
SaveConfig ==
    /\ pc = "save"
    /\ raw_prompt_json' = <<model_config>>
    /\ \E sd \in FixSeed(model_config.seed),
          pm \in WildCardConversion(model_config.prompt_map),
          h \in WildCardDecoration(model_config.head_prompt),
          t \in WildCardDecoration(model_config.tail_prompt) :
            model_config' = [model_config EXCEPT !.seed = sd, !.prompt_map = pm,
                                                 !.head_prompt = h, !.tail_prompt = t]
    /\ prompt_json' = <<model_config'>>
    /\ gen_num' = 0
    /\ outputs' = <<>>
    /\ pc' = "loop"
    /\ UNCHANGED <<globals, args, config_file, window, base_model_path, conditioning, warnings, pipeline_event,
                   rep, calls, inference, error, merged_saved, returned, us>>

\* if model_config.prompt_map: is false, the iteration does nothing.
RepeatSkip ==
    /\ pc = "loop"
    /\ rep < args.repeats
    /\ Len(model_config.prompt_map) = 0
    /\ rep' = rep + 1
    /\ UNCHANGED <<globals, pc, args, config_file, model_config, window, base_model_path, conditioning, warnings,
                   pipeline_event, raw_prompt_json, prompt_json, gen_num, calls, inference, outputs,
                   error, merged_saved, returned, us>>

\* The exception an iteration raises before it reaches run_inference:
\* idx % 0 for an empty n_prompt or seed list, int(k) for a key that is no integer.
RepeatError(config) ==
    IF Len(config.n_prompt) = 0 \/ Len(config.seed) = 0 THEN "ZeroDivisionError"
    ELSE IF HasBadKey(config.prompt_map) THEN "ValueError"
    ELSE "none"

RepeatRaises ==
    /\ pc = "loop"
    /\ rep < args.repeats
    /\ Len(model_config.prompt_map) > 0
    /\ RepeatError(model_config) /= "none"
    /\ error' = RepeatError(model_config)
    /\ pc' = "raised"
    /\ UNCHANGED <<globals, args, config_file, model_config, window, base_model_path, conditioning, warnings,
                   pipeline_event, raw_prompt_json, prompt_json, gen_num, rep, calls, inference,
                   outputs, merged_saved, returned, us>>

\* Reuse of the last entry instead of cyclic reuse.
Cyclic_Clamped(list, idx) == list[IF idx < Len(list) THEN idx + 1 ELSE Len(list)]

\* list[idx % len(list)], with sequences indexed from 1.
Cyclic(list, idx) == list[(idx % Len(list)) + 1]

\* The keyword arguments of the run_inference call of generation idx.
InferenceCall(config, a, w, cond, pipeline, idx, seed) ==
    [pipeline        |-> pipeline,
     n_prompt        |-> Cyclic(config.n_prompt, idx),
     seed            |-> seed,
     steps           |-> config.steps,
     guidance_scale  |-> config.guidance_scale,
     width           |-> a.width,
     height          |-> a.height,
     duration        |-> a.length,
     idx             |-> idx,
     context_frames  |-> w.context,
     context_overlap |-> w.overlap,
     context_stride  |-> w.stride,
     prompt_map      |-> BuildPromptMap(config.prompt_map, config.head_prompt,
                                        config.tail_prompt, a.length, <<>>),
     controlnet_map  |-> config.controlnet_map,
     conditioning    |-> cond]

\* An iteration reaches run_inference: the call is made and blocks.
RunInferenceCall ==
    /\ pc = "loop"
    /\ rep < args.repeats
    /\ Len(model_config.prompt_map) > 0
    /\ RepeatError(model_config) = "none"
    /\ \E seed \in GenerationSeed(Cyclic(model_config.seed, gen_num)) :
          calls' = Append(calls, InferenceCall(model_config, args, window, conditioning,
                                               g_pipeline, gen_num, seed))
    /\ cache_dirty' = TRUE
    /\ pc' = "infer"
    /\ UNCHANGED <<g_pipeline, last_model_path, model_index, controlnet_loaded, args, config_file,
                   model_config, window, base_model_path, conditioning, warnings, pipeline_event,
                   raw_prompt_json, prompt_json, gen_num, rep, inference, outputs, error,
                   merged_saved, returned, us>>

\* What run_inference refuses when it builds the window schedule and the
\* prompt resolver of a call.
InferenceError(call) ==
    IF InvalidWindowConfig(call.duration, call.context_frames, call.context_overlap)
    THEN "InvalidWindowConfig"
    ELSE IF Len(call.prompt_map) = 0 THEN "EmptyPromptMap"
    ELSE "none"

\* The window schedule and the prompt of every frame of a call.
Inference(call) ==
    [windows |-> ContextWindows(call.duration, call.context_frames, call.context_overlap,
                                call.context_stride),
     prompts |-> [i \in 1..call.duration |-> ResolvePrompt(call.prompt_map, i - 1)]]

\* run_inference refuses the call before any window is denoised.
RunInferenceRejects ==
    /\ pc = "infer"
    /\ InferenceError(calls[Len(calls)]) /= "none"
    /\ error' = InferenceError(calls[Len(calls)])
    /\ pc' = "raised"
    /\ UNCHANGED <<globals, args, config_file, model_config, window, base_model_path,
                   conditioning, warnings, pipeline_event, raw_prompt_json, prompt_json,
                   gen_num, rep, calls, inference, outputs, merged_saved, returned, us>>

\* A return that writes the decorated prompts back into the config.
RunInferenceReturns_WritesBack ==
    /\ pc = "infer"
    /\ InferenceError(calls[Len(calls)]) = "none"
    /\ inference' = Append(inference, Inference(calls[Len(calls)]))
    /\ outputs' = Append(outputs, gen_num)
    /\ cache_dirty' = FALSE
    /\ gen_num' = gen_num + 1
    /\ rep' = rep + 1
    /\ model_config' =
          [model_config EXCEPT !.prompt_map =
              [i \in DOMAIN @ |->
                  [k |-> @[i].k,
                   v |-> Decorate(model_config.head_prompt, @[i].v,
                                  model_config.tail_prompt)]]]
    /\ pc' = "loop"
    /\ UNCHANGED <<g_pipeline, last_model_path, model_index, controlnet_loaded, args, config_file,
                   window, base_model_path, conditioning, warnings, pipeline_event,
                   raw_prompt_json, prompt_json, calls, error, merged_saved, returned, us>>

\* run_inference returns: the output is kept, the cache emptied and the
\* generation number incremented.
RunInferenceReturns ==
    /\ pc = "infer"
    /\ InferenceError(calls[Len(calls)]) = "none"
    /\ inference' = Append(inference, Inference(calls[Len(calls)]))
    /\ outputs' = Append(outputs, gen_num)
    /\ cache_dirty' = FALSE
    /\ gen_num' = gen_num + 1
    /\ rep' = rep + 1
    /\ pc' = "loop"
    /\ UNCHANGED <<g_pipeline, last_model_path, model_index, controlnet_loaded, args, config_file,
                   model_config, window, base_model_path, conditioning, warnings, pipeline_event,
                   raw_prompt_json, prompt_json, calls, error, merged_saved, returned, us>>

\* A failure that is caught and logged, the loop going on to the next repeat.
RunInferenceFails_Swallowed ==
    /\ pc = "infer"
    /\ error' = "DenoisingFailure"
    /\ rep' = rep + 1
    /\ pc' = "loop"
    /\ UNCHANGED <<globals, args, config_file, model_config, window, base_model_path, conditioning,
                   warnings, pipeline_event, raw_prompt_json, prompt_json, gen_num, calls, inference,
                   outputs, merged_saved, returned, us>>

\* run_inference raises while denoising: nothing in generate catches it.
RunInferenceFails ==
    /\ pc = "infer"
    /\ InferenceError(calls[Len(calls)]) = "none"
    /\ error' = "DenoisingFailure"
    /\ pc' = "raised"
    /\ UNCHANGED <<globals, args, config_file, model_config, window, base_model_path, conditioning, warnings,
                   pipeline_event, raw_prompt_json, prompt_json, gen_num, rep, calls, inference,
                   outputs, merged_saved, returned, us>>

\* After the loop: the ControlNet models are unloaded, the merged video is
\* saved when asked for, and save_dir is returned.  torch.concat of an empty
\* list raises.
GenerateFinish ==
    /\ pc = "loop"
    /\ rep = args.repeats
    /\ controlnet_loaded' = FALSE
    /\ IF args.save_merged /\ Len(outputs) = 0
       THEN /\ error' = "RuntimeError"
            /\ pc' = "raised"
            /\ UNCHANGED <<merged_saved, returned>>
       ELSE /\ merged_saved' = args.save_merged
            /\ returned' = TRUE
            /\ pc' = "done"
            /\ UNCHANGED error
    /\ UNCHANGED <<g_pipeline, last_model_path, model_index, cache_dirty, args, config_file,
                   model_config, window, base_model_path, conditioning, warnings, pipeline_event,
                   raw_prompt_json, prompt_json, gen_num, rep, calls, inference, outputs, us>>

\* The caller has the return value or the exception; the command's locals are gone.
Exit ==
    /\ pc \in {"done", "raised"}
    /\ pc' = "idle"
    /\ args' = DefaultArgs
    /\ config_file' = DefaultConfig
    /\ model_config' = DefaultConfig
    /\ window' = NoWindow
    /\ base_model_path' = <<>>
    /\ conditioning' = NoConditioning
    /\ warnings' = <<>>
    /\ pipeline_event' = "none"
    /\ raw_prompt_json' = <<>>
    /\ prompt_json' = <<>>
    /\ gen_num' = 0
    /\ rep' = 0
    /\ calls' = <<>>
    /\ inference' = <<>>
    /\ outputs' = <<>>
    /\ error' = "none"
    /\ merged_saved' = FALSE
    /\ returned' = FALSE
    /\ us' = NoUpscale
    /\ UNCHANGED globals

\* ------------------------------------------------------------- tile_upscale
\* A config with no controlnet_tile entry is given one that is enabled.
WithTileDefault(upscale_config) ==
    IF "controlnet_tile" \notin DictKeys(upscale_config)
    THEN DictSet(upscale_config, "controlnet_tile", TRUE)
    ELSE upscale_config

\* upscale_config[name]["enable"] if name in upscale_config else False.
UpscaleFlag(upscale_config, name) ==
    IF name \in DictKeys(upscale_config) THEN DictGet(upscale_config, name) ELSE FALSE

\* The four use_controlnet_* locals; all False for a falsy upscale_config.
UpscaleFlags(upscale_config) ==
    [ref        |-> Len(upscale_config) > 0 /\ UpscaleFlag(upscale_config, "controlnet_ref"),
     tile       |-> Len(upscale_config) > 0 /\ UpscaleFlag(upscale_config, "controlnet_tile"),
     line_anime |-> Len(upscale_config) > 0 /\ UpscaleFlag(upscale_config, "controlnet_line_anime"),
     ip2p       |-> Len(upscale_config) > 0 /\ UpscaleFlag(upscale_config, "controlnet_ip2p")]

\* A test that controlnet_ref satisfies as well.
NoneEnabled_RefCounts(flags) ==
    (~flags.ref) /\ (~flags.tile) /\ (~flags.line_anime) /\ (~flags.ip2p)

\* The nested test that raises "At least one of them should be enabled".
NoneEnabled(flags) == (~flags.tile) /\ (~flags.line_anime) /\ (~flags.ip2p)

\* The keyword arguments of the run_upscale call.
UpscaleCall(config, a, flags, seed) ==
    [n_prompt       |-> Cyclic(config.n_prompt, 0),
     seed           |-> seed,
     steps          |-> config.steps,
     guidance_scale |-> config.guidance_scale,
     us_width       |-> a.width,
     us_height      |-> a.height,
     idx            |-> 0,
     n_frames       |-> a.n_frames,
     prompt_map     |-> BuildPromptMap(config.prompt_map, config.head_prompt,
                                       config.tail_prompt, a.n_frames, <<>>),
     upscale_config |-> config.upscale_config,
     flags          |-> flags]

\* How far tile_upscale gets with an input, up to the run_upscale call:
\* "size" and "controlnets" are the two ValueErrors it raises itself, "skip"
\* is an empty prompt_map, "raise" an exception of the prompt set-up.
UpscaleStage(a, config) ==
    IF a.width < 0 /\ a.height < 0 THEN "size"
    ELSE IF NoneEnabled(UpscaleFlags(WithTileDefault(config.upscale_config)))
         THEN "controlnets"
    ELSE IF Len(config.prompt_map) = 0 THEN "skip"
    ELSE IF RepeatError(config) /= "none" THEN "raise"
    ELSE "call"

\* tile_upscale raises one of its own errors before any run_upscale call.
TileUpscaleRaises(inp) ==
    /\ pc = "idle"
    /\ LET a     == inp.args
           stage == UpscaleStage(a, inp.config)
           cfg   == [inp.config EXCEPT !.upscale_config = WithTileDefault(@)]
       IN  /\ stage \in {"size", "controlnets", "raise"}
           /\ args' = a
           /\ config_file' = inp.config
           /\ model_config' = IF stage = "size" THEN inp.config ELSE cfg
           /\ error' = IF stage = "raise" THEN RepeatError(cfg) ELSE "ValueError"
           /\ us' = IF stage = "raise"
                    THEN [created |-> TRUE, flags |-> UpscaleFlags(cfg.upscale_config),
                          saved |-> <<cfg>>, calls |-> <<>>]
                    ELSE NoUpscale
    /\ pc' = "raised"
    /\ UNCHANGED <<globals, window, base_model_path, conditioning, warnings,
                   pipeline_event, raw_prompt_json, prompt_json, gen_num, rep, calls, inference,
                   outputs, merged_saved, returned>>

\* tile_upscale runs to its return: with an empty prompt_map it calls
\* nothing, otherwise it calls run_upscale once and empties the cache.
TileUpscaleReturns(inp) ==
    /\ pc = "idle"
    /\ LET a     == inp.args
           stage == UpscaleStage(a, inp.config)
           cfg   == [inp.config EXCEPT !.upscale_config = WithTileDefault(@)]
           flags == UpscaleFlags(cfg.upscale_config)
       IN  /\ stage \in {"skip", "call"}
           /\ args' = a
           /\ config_file' = inp.config
           /\ model_config' = cfg
           /\ IF stage = "skip"
              THEN us' = [created |-> TRUE, flags |-> flags, saved |-> <<cfg>>,
                          calls |-> <<>>]
              ELSE \E seed \in GenerationSeed(Cyclic(cfg.seed, 0)) :
                      us' = [created |-> TRUE, flags |-> flags, saved |-> <<cfg>>,
                             calls |-> <<UpscaleCall(cfg, a, flags, seed)>>]
           /\ gen_num' = 1
    /\ cache_dirty' = FALSE
    /\ returned' = TRUE
    /\ pc' = "done"
    /\ UNCHANGED <<g_pipeline, last_model_path, model_index, controlnet_loaded, window,
                   base_model_path, conditioning, warnings, pipeline_event,
                   raw_prompt_json, prompt_json, rep, calls, inference, outputs, error, merged_saved>>

\* run_upscale raises: nothing in tile_upscale catches it.
RunUpscaleFails(inp) ==
    /\ pc = "idle"
    /\ LET a     == inp.args
           cfg   == [inp.config EXCEPT !.upscale_config = WithTileDefault(@)]
           flags == UpscaleFlags(cfg.upscale_config)
       IN  /\ UpscaleStage(a, inp.config) = "call"
           /\ args' = a
           /\ config_file' = inp.config
           /\ model_config' = cfg
           /\ \E seed \in GenerationSeed(Cyclic(cfg.seed, 0)) :
                 us' = [created |-> TRUE, flags |-> flags, saved |-> <<cfg>>,
                        calls |-> <<UpscaleCall(cfg, a, flags, seed)>>]
    /\ cache_dirty' = TRUE
    /\ error' = "UpscaleFailure"
    /\ pc' = "raised"
    /\ UNCHANGED <<g_pipeline, last_model_path, model_index, controlnet_loaded, window,
                   base_model_path, conditioning, warnings, pipeline_event,
                   raw_prompt_json, prompt_json, gen_num, rep, calls, inference, outputs,
                   merged_saved, returned>>

\* ------------------------------------------------------------ specification
Next ==
    \/ \E inp \in GenerateInputs : GenerateBegin(inp)
    \/ PipelineCreate
    \/ PipelineCreateFails
    \/ PipelineReuse
    \/ SaveConfig
    \/ RepeatSkip
    \/ RepeatRaises
    \/ RunInferenceCall
    \/ RunInferenceRejects
    \/ RunInferenceReturns
    \/ RunInferenceFails
    \/ GenerateFinish
    \/ Exit
    \/ \E inp \in UpscaleInputs : TileUpscaleRaises(inp)
    \/ \E inp \in UpscaleInputs : TileUpscaleReturns(inp)
    \/ \E inp \in UpscaleInputs : RunUpscaleFails(inp)

Spec == Init /\ [][Next]_vars

\* ------------------------------------------------------------------ claims
\* The command that is running is generate, past its first step.
InGenerate == pc /= "idle" /\ args.command = "generate"

\* The context generate resolved before the v1 cap.
ResolvedContext == IF args.context = Unset THEN NativeWindow ELSE args.context

\* C1: with a motion module that is not v2, a resolved context above 24 is
\* handed to run_inference as exactly 24 and one warning is logged; with a v2
\* module, or a context of 24 or less, run_inference gets the resolved
\* context unchanged and nothing is logged.  The cap raises no error.
C1_ContextCappedForV1 ==
    InGenerate =>
        LET capped == model_config.motion_module /= "mm_sd_v15_v2" /\ ResolvedContext > 24
        IN  /\ window.context = (IF capped THEN 24 ELSE ResolvedContext)
            /\ \A i \in DOMAIN calls :
                  calls[i].context_frames = (IF capped THEN 24 ELSE ResolvedContext)
            /\ Len(warnings) = (IF capped THEN 1 ELSE 0)
            /\ (capped /\ pc = "pipeline") => error = "none"

C1_Witness ==
    /\ pc = "done"
    /\ args.context = 32
    /\ model_config.motion_module = "mm_sd_v15"
    /\ Len(calls) = 2
    /\ calls[2].context_frames = 24
    /\ Len(warnings) = 1

\* C2: the config written to prompt.json holds no seed -1, and the seed of
\* every run_inference call is not -1 and is the entry of that written seed
\* list that the call's generation index selects.
C2_NoSentinelSeed ==
    InGenerate =>
        /\ \A j \in DOMAIN prompt_json : \A i \in DOMAIN prompt_json[j].seed :
              prompt_json[j].seed[i] /= -1
        /\ \A i \in DOMAIN calls :
              /\ calls[i].seed /= -1
              /\ Len(prompt_json) = 1
              /\ calls[i].seed =
                    prompt_json[1].seed[(calls[i].idx % Len(prompt_json[1].seed)) + 1]

C2_Witness ==
    /\ pc = "done"
    /\ Len(prompt_json) = 1
    /\ raw_prompt_json = <<[prompt_json[1] EXCEPT !.seed = <<5, -1>>]>>
    /\ Len(calls) = 3
    /\ calls[2].seed \in TorchSeeds

\* C3: the run_inference calls of a generate run carry the generation
\* indices 0, 1, 2, ... in order, each call is made after the one before it
\* has returned, call i uses seed[i mod len(seed)] and
\* n_prompt[i mod len(n_prompt)], and a run with a non-empty prompt_map that
\* returns has made exactly `repeats` calls.
C3_RepeatsInOrder ==
    InGenerate =>
        /\ \A i \in DOMAIN calls :
              /\ calls[i].idx = i - 1
              /\ calls[i].seed = model_config.seed[((i - 1) % Len(model_config.seed)) + 1]
              /\ calls[i].n_prompt =
                    model_config.n_prompt[((i - 1) % Len(model_config.n_prompt)) + 1]
        /\ Len(calls) <= args.repeats
        /\ Len(outputs) = (IF pc = "infer" \/ error \in {"DenoisingFailure",
                                                          "InvalidWindowConfig",
                                                          "EmptyPromptMap"}
                           THEN Len(calls) - 1 ELSE Len(calls))
        /\ (pc = "done" /\ Len(model_config.prompt_map) > 0) => Len(calls) = args.repeats

C3_Witness ==
    /\ pc = "done"
    /\ args.repeats = 3
    /\ Len(model_config.seed) = 2
    /\ Len(model_config.n_prompt) = 2
    /\ Len(calls) = 3
    /\ calls[3].seed = calls[1].seed
    /\ calls[3].seed /= calls[2].seed

\* The configured keyframes whose index is below the frame count.
EffectiveKeyframes(config, frames) ==
    {i \in DOMAIN config.prompt_map :
        IsIntLiteral(config.prompt_map[i].k) /\ ParseInt(config.prompt_map[i].k) < frames}

\* C4 (as claimed): no run_inference call of generate gets an empty prompt
\* map, and a generate run whose effective keyframe set is empty does not
\* return normally.
C4_EmptyPromptMapRejected ==
    InGenerate =>
        /\ \A i \in DOMAIN calls : Len(calls[i].prompt_map) > 0
        /\ (pc = "done") => EffectiveKeyframes(model_config, args.length) /= {}

\* A run that hands run_inference an empty prompt map.
C4_Witness ==
    /\ pc = "raised"
    /\ args.command = "generate"
    /\ Len(model_config.prompt_map) > 0
    /\ Len(calls) = 1
    /\ calls[1].prompt_map = <<>>

\* C5 (as claimed): every keyframe generate hands to run_inference has an
\* index in [0, length).
C5_KeyframesInRange ==
    InGenerate =>
        \A i \in DOMAIN calls : \A j \in DOMAIN calls[i].prompt_map :
            /\ calls[i].prompt_map[j].k >= 0
            /\ calls[i].prompt_map[j].k < calls[i].duration

\* A run that hands run_inference a keyframe of index -1.
C5_Witness ==
    /\ pc = "done"
    /\ Len(calls) = 2
    /\ \E i \in DOMAIN model_config.prompt_map : model_config.prompt_map[i].k = <<"-", "1">>
    /\ \E j \in DOMAIN calls[1].prompt_map : calls[1].prompt_map[j].k = -1

\* The text the claim gives for a keyframe: head + "," + text + "," + tail,
\* a decoration and its comma being there only when the decoration is not empty.
DecoratedText(head, text, tail) ==
    (IF head /= <<>> THEN head \o <<",">> ELSE <<>>) \o text
        \o (IF tail /= <<>> THEN <<",">> \o tail ELSE <<>>)

\* The configured item a handed keyframe comes from: the last one, in
\* iteration order, whose key is that integer.
SourceItem(config, key) ==
    LET from == {i \in DOMAIN config.prompt_map : ParseInt(config.prompt_map[i].k) = key}
    IN  config.prompt_map[CHOOSE i \in from : \A j \in from : j <= i]

\* C6: every keyframe text handed to run_inference is the configured text
\* with the head before it and the tail after it, comma-joined, each applied
\* once and only when non-empty; every repeat gets the same texts.
C6_HeadTailDecoration ==
    InGenerate =>
        \A i \in DOMAIN calls :
            /\ \A j \in DOMAIN calls[i].prompt_map :
                  calls[i].prompt_map[j].v =
                      DecoratedText(model_config.head_prompt,
                                    SourceItem(model_config, calls[i].prompt_map[j].k).v,
                                    model_config.tail_prompt)
            /\ calls[i].prompt_map = calls[1].prompt_map

C6_Witness ==
    /\ pc = "done"
    /\ model_config.head_prompt = <<"h", "w2">>
    /\ model_config.tail_prompt = <<"t">>
    /\ Len(calls) = 2
    /\ Len(calls[2].prompt_map) = 2
    /\ calls[2].prompt_map[1].v = <<"h", "w2", ",", "a", ",", "t">>

\* C7: once run_inference has failed in generation i, generate is left by
\* the exception: calls 0..i are the only calls made, the failed call has no
\* output, no merged video is written and save_dir is not returned.
C7_FailureAborts ==
    (error = "DenoisingFailure") =>
        /\ pc = "raised"
        /\ Len(calls) = gen_num + 1
        /\ calls[Len(calls)].idx = gen_num
        /\ Len(outputs) = gen_num
        /\ ~merged_saved
        /\ ~returned

C7_Witness ==
    /\ error = "DenoisingFailure"
    /\ pc = "raised"
    /\ args.save_merged
    /\ args.repeats = 2
    /\ gen_num = 0

\* C8 (as claimed): when generate is left after a run_inference call, by
\* return or by exception, the cache has been released and the ControlNet
\* models are unloaded, and no repeat starts with the cache of the call before
\* it unreleased.
C8_ReleasedOnEveryExit ==
    (InGenerate /\ Len(calls) > 0) =>
        /\ (pc \in {"done", "raised"}) => (~controlnet_loaded)
        /\ (pc \in {"done", "raised", "loop"}) => (~cache_dirty)

\* A run left by a run_inference failure with the ControlNet models loaded
\* and the cache not released.
C8_Witness ==
    /\ pc = "raised"
    /\ error = "DenoisingFailure"
    /\ controlnet_loaded
    /\ cache_dirty

\* The fields of a run_inference call other than idx, seed and n_prompt.
SharedArguments(call) == [call EXCEPT !.idx = 0, !.seed = 0, !.n_prompt = ""]

\* C9: all run_inference calls of a generate run agree on every argument but
\* idx, seed and n_prompt, and from the moment prompt.json is written the
\* config object stays what was written.
C9_RepeatsIndependent ==
    InGenerate =>
        /\ \A i \in DOMAIN calls : SharedArguments(calls[i]) = SharedArguments(calls[1])
        /\ \A j \in DOMAIN prompt_json : model_config = prompt_json[j]

C9_Witness ==
    /\ pc = "done"
    /\ Len(calls) = 3
    /\ calls[1].seed /= calls[2].seed
    /\ calls[1].n_prompt /= calls[2].n_prompt
    /\ Len(calls[3].prompt_map) > 0

\* C10: at "beware the pipeline", create_pipeline is called exactly when no
\* pipeline is resident or last_model_path differs from the resolved path of
\* the config; otherwise the resident pipeline is kept and its text embeddings
\* are reloaded.  After it last_model_path is the resolved path of the
\* config, and a resident pipeline was always created from last_model_path.
C10_PipelineReuse ==
    /\ [](g_pipeline.resident => last_model_path = g_pipeline.path)
    /\ [](pipeline_event \in {"created", "reused"}
            => last_model_path = Resolve(model_config.path))
    /\ [][pc = "pipeline" =>
            IF (~g_pipeline.resident) \/ last_model_path /= Resolve(model_config.path)
            THEN pipeline_event' \in {"created", "create_failed"}
            ELSE pipeline_event' = "reused" /\ g_pipeline' = g_pipeline]_vars

C10_Witness ==
    /\ pipeline_event = "reused"
    /\ g_pipeline.resident
    /\ model_config.path = <<"models", "sub", "..", "a.safetensors">>
    /\ last_model_path = <<"/", "work", "models", "a.safetensors">>

\* A dict as Python compares dicts: by its items, not their order.
AsMapping(d) == {<<d[i].k, d[i].v>> : i \in DOMAIN d}

\* The same items in every insertion order.
Orderings(d) ==
    {o \in [DOMAIN d -> Range(d)] : \A i \in DOMAIN d : \E j \in DOMAIN d : o[j] = d[i]}

\* The integer-keyed prompt map generate builds from a config's legacy prompt
\* list and prompt_map, before wildcards and decoration.
IntegerKeyed(prompt, pm, length) ==
    AsMapping(BuildPromptMap(LoraStrippedPrompts(MergeOldPrompt(prompt, 0, pm)),
                             <<>>, <<>>, length, <<>>))

\* C11 (as claimed): the prompt map of every run_inference call has one
\* entry per integer frame index, and the map does not depend on the order
\* of the configured prompt_map: every ordering of the same (key, text)
\* entries, legacy prompt list merged in, gives the same integer-keyed map,
\* and every ordering of the entries the repeat reads gives the map handed over.
C11_OrderIndependent ==
    InGenerate =>
        /\ \A i \in DOMAIN calls :
              \A x, y \in DOMAIN calls[i].prompt_map :
                  calls[i].prompt_map[x].k = calls[i].prompt_map[y].k => x = y
        /\ \A i \in DOMAIN calls :
              \A o \in Orderings(model_config.prompt_map) :
                  AsMapping(BuildPromptMap(o, model_config.head_prompt,
                                           model_config.tail_prompt, args.length, <<>>))
                      = AsMapping(calls[i].prompt_map)
        /\ Len(calls) > 0 =>
              \A o \in Orderings(config_file.prompt_map) :
                  IntegerKeyed(config_file.prompt, o, args.length)
                      = IntegerKeyed(config_file.prompt, config_file.prompt_map, args.length)

\* A call whose prompt map came from the keys "1" and "01".
C11_Witness ==
    /\ InGenerate
    /\ Len(calls) > 0
    /\ Len(model_config.prompt_map) = 2
    /\ ParseInt(model_config.prompt_map[1].k) = ParseInt(model_config.prompt_map[2].k)
    /\ Len(calls[1].prompt_map) = 1

\* C12 (as claimed): when --overlap is not supplied, every run_inference
\* call of generate gets an overlap of context_frames // 4, context_frames
\* being the context of that same call, after the v1 cap.
C12_DefaultOverlap ==
    (InGenerate /\ args.overlap = Unset) =>
        \A i \in DOMAIN calls :
            calls[i].context_overlap = FloorDiv(calls[i].context_frames, 4)

\* A call with a capped context and no overlap supplied.
C12_Witness ==
    /\ InGenerate
    /\ args.overlap = Unset
    /\ args.context = 32
    /\ Len(calls) > 0
    /\ calls[1].context_frames = V1MaxContext
    /\ calls[1].context_overlap = 8

\* C13 (as claimed): a generate run whose overlap is not below its
\* effective context, the context after the v1 cap, does no generation work:
\* no pipeline is created or reused, neither config file is written and
\* run_inference is not called.
C13_InvalidWindowRejectedEarly ==
    (InGenerate /\ window.overlap >= window.context) =>
        /\ pipeline_event \notin {"created", "reused"}
        /\ raw_prompt_json = <<>>
        /\ prompt_json = <<>>
        /\ calls = <<>>

\* A run with overlap >= context that got as far as run_inference, which
\* refused it.
C13_Witness ==
    /\ InGenerate
    /\ window.overlap >= window.context
    /\ pipeline_event = "created"
    /\ Len(prompt_json) = 1
    /\ Len(calls) = 1
    /\ error = "InvalidWindowConfig"

\* The same with an overlap below the requested context and not below the
\* capped one.
C13_CappedWitness ==
    /\ C13_Witness
    /\ args.overlap < args.context

\* The frames of a schedule.
ScheduledFrames(windows) == UNION {Range(windows[w]) : w \in DOMAIN windows}

HeldKeyframe(keys, f) ==
    LET before == {k \in keys : k <= f}
    IN  IF before /= {}
        THEN CHOOSE k \in before : \A j \in before : j <= k
        ELSE CHOOSE k \in keys : \A j \in keys : k <= j

\* C15: in every completed run_inference call of generate, the prompt
\* resolved for each frame f of [0, duration) is the text the call's
\* integer-keyed prompt map holds for the greatest keyframe index k <= f,
\* or for the earliest keyframe when every index is greater than f.
C15_HoldLastValue ==
    InGenerate =>
        \A i \in DOMAIN inference :
            /\ Len(inference[i].prompts) = calls[i].duration
            /\ \A f \in 0..(calls[i].duration - 1) :
                  inference[i].prompts[f + 1] =
                      DictGet(calls[i].prompt_map,
                              HeldKeyframe(DictKeys(calls[i].prompt_map), f))

\* Keyframes {0: a, 5: b, 10: c} over 12 frames: a on [0, 5), b on [5, 10)
\* and c on [10, 12), each under the head prompt h.
C15_Witness ==
    /\ InGenerate
    /\ Len(inference) = 1
    /\ calls[1].duration = 12
    /\ DictKeys(calls[1].prompt_map) = {0, 5, 10}
    /\ \A f \in 0..4 : inference[1].prompts[f + 1] = <<"h", ",", "a">>
    /\ \A f \in 5..9 : inference[1].prompts[f + 1] = <<"h", ",", "b">>
    /\ \A f \in 10..11 : inference[1].prompts[f + 1] = <<"h", ",", "c">>

\* Frames before the first keyframe take the earliest keyframe's text.
C15_EarliestWitness ==
    /\ InGenerate
    /\ Len(inference) = 1
    /\ DictKeys(calls[1].prompt_map) = {2, 5}
    /\ inference[1].prompts[1] = DictGet(calls[1].prompt_map, 2)

\* upscale_config names the ControlNet and enables it.
Enabled(upscale_config, name) ==
    name \in DictKeys(upscale_config) /\ DictGet(upscale_config, name)

\* tile_upscale was left by a ValueError with no pipeline created.
UpscaleRejected ==
    pc = "raised" /\ error = "ValueError" /\ (~us.created) /\ us.calls = <<>>

\* C16: in a tile_upscale run with a valid size, the upscale pipeline is
\* created, and run_upscale called, only if controlnet_tile,
\* controlnet_line_anime or controlnet_ip2p is enabled; with none of the three
\* enabled, controlnet_ref enabled or not, the run is left by a ValueError
\* before a pipeline is created; a loaded config with no controlnet_tile
\* entry has one that is enabled, and is not rejected; a rejected config had
\* a controlnet_tile entry that was disabled.
C16_UpscaleNeedsControlnet ==
    (pc /= "idle" /\ args.command = "tile_upscale" /\ ~(args.width < 0 /\ args.height < 0)) =>
        LET given == config_file.upscale_config
            uc    == model_config.upscale_config
            any   == \/ Enabled(uc, "controlnet_tile")
                     \/ Enabled(uc, "controlnet_line_anime")
                     \/ Enabled(uc, "controlnet_ip2p")
        IN  /\ (us.created \/ Len(us.calls) > 0) => any
            /\ (~any) => UpscaleRejected
            /\ "controlnet_tile" \notin DictKeys(given) =>
                  Enabled(uc, "controlnet_tile") /\ ~UpscaleRejected
            /\ UpscaleRejected =>
                  "controlnet_tile" \in DictKeys(given) /\ ~DictGet(given, "controlnet_tile")

\* controlnet_ref enabled and controlnet_tile disabled: rejected.
C16_Witness ==
    /\ pc = "raised"
    /\ args.command = "tile_upscale"
    /\ ~(args.width < 0 /\ args.height < 0)
    /\ Enabled(model_config.upscale_config, "controlnet_ref")
    /\ UpscaleRejected

\* A config with controlnet_ref alone is given controlnet_tile and runs.
C16_DefaultWitness ==
    /\ pc = "done"
    /\ args.command = "tile_upscale"
    /\ DictKeys(config_file.upscale_config) = {"controlnet_ref"}
    /\ Enabled(model_config.upscale_config, "controlnet_tile")
    /\ Len(us.calls) = 1

\* The prompt map LoRA parsing reads: the configured one with the legacy
\* prompt list merged in.
ParsedPrompts == MergeOldPrompt(config_file.prompt, 0, config_file.prompt_map)

\* Where the tags naming a LoRA stand: (keyframe position, token position).
TagPlaces(pm, stem) ==
    UNION {{<<i, j>> : j \in {t \in DOMAIN pm[i].v :
                                  pm[i].v[t] \in LoraTags /\ LoraName(pm[i].v[t]) = stem}} :
              i \in DOMAIN pm}

\* The weight of the last tag naming a LoRA, in keyframe iteration order.
LastTagWeight(pm, stem) ==
    LET places == TagPlaces(pm, stem)
        last   == CHOOSE p \in places :
                     \A q \in places : q[1] < p[1] \/ (q[1] = p[1] /\ q[2] <= p[2])
    IN  LoraWeight(pm[last[1]].v[last[2]])

\* After LoRA parsing no prompt holds a tag, and the keys are those parsed.
TagsStripped ==
    /\ \A i \in DOMAIN model_config.prompt_map :
          \A j \in DOMAIN model_config.prompt_map[i].v :
              model_config.prompt_map[i].v[j] \notin LoraTags
    /\ [i \in DOMAIN model_config.prompt_map |-> model_config.prompt_map[i].k]
          = [i \in DOMAIN ParsedPrompts |-> ParsedPrompts[i].k]

\* A file under lora_path is in lora_map with the weight of its last tag if
\* a tag names its stem, and is not put there if none does.
FilesSelected ==
    \A file \in Range(GlobLoraFiles(config_file.lora_path)) :
        IF TagPlaces(ParsedPrompts, LoraStem(file)) /= {}
        THEN /\ file \in DictKeys(model_config.lora_map)
             /\ DictGet(model_config.lora_map, file)
                   = LastTagWeight(ParsedPrompts, LoraStem(file))
        ELSE file \in DictKeys(model_config.lora_map) =>
                /\ file \in DictKeys(config_file.lora_map)
                /\ DictGet(model_config.lora_map, file) = DictGet(config_file.lora_map, file)

\* The lora_map entries generate did not take from a tagged file.
Untagged(file) ==
    \/ file \notin Range(GlobLoraFiles(config_file.lora_path))
    \/ TagPlaces(ParsedPrompts, LoraStem(file)) = {}

\* C17 (as claimed): after LoRA parsing no prompt holds a tag and the
\* keyframe keys are unchanged; a file under lora_path is added to lora_map
\* if and only if a tag names its stem, with the last such tag's weight; and
\* every lora_map entry of the config is still there with its weight.
C17_LoraSelection_Claimed ==
    InGenerate =>
        /\ TagsStripped
        /\ FilesSelected
        /\ \A file \in DictKeys(config_file.lora_map) :
              /\ file \in DictKeys(model_config.lora_map)
              /\ DictGet(model_config.lora_map, file) = DictGet(config_file.lora_map, file)

\* C17 (amended): as claimed, but a lora_map entry of the config keeps its
\* weight only if it is no tagged file under lora_path; if it is one, it
\* takes the weight of the last tag naming it.  Nothing but the config's
\* entries and the tagged files is in lora_map.
C17_LoraSelection ==
    InGenerate =>
        /\ TagsStripped
        /\ FilesSelected
        /\ \A file \in DictKeys(config_file.lora_map) :
              /\ file \in DictKeys(model_config.lora_map)
              /\ Untagged(file) =>
                    DictGet(model_config.lora_map, file) = DictGet(config_file.lora_map, file)
        /\ \A file \in DictKeys(model_config.lora_map) :
              file \in DictKeys(config_file.lora_map) \/ ~Untagged(file)

\* The config gives lora/L1.safetensors the weight 0.8, the prompts tag L1
\* with 0.5 and then 1.0, and lora_map holds it with 1.0.
C17_Witness ==
    /\ InGenerate
    /\ config_file.lora_path /= NoLoraPath
    /\ "lora/L1.safetensors" \in DictKeys(config_file.lora_map)
    /\ DictGet(config_file.lora_map, "lora/L1.safetensors") = 8
    /\ Cardinality(TagPlaces(ParsedPrompts, "L1")) = 2
    /\ DictGet(model_config.lora_map, "lora/L1.safetensors") = 10

\* C18 (as claimed): when generate keeps the resident pipeline, that
\* pipeline was created with the motion module, the lora_map and the base
\* model of the running invocation, and so is every pipeline handed to
\* run_inference.
C18_ReusedPipelineMatches ==
    InGenerate =>
        /\ pipeline_event = "reused" =>
              /\ g_pipeline.motion_module = model_config.motion_module
              /\ AsMapping(g_pipeline.lora_map) = AsMapping(model_config.lora_map)
              /\ g_pipeline.base_model = base_model_path
        /\ \A i \in DOMAIN calls :
              /\ calls[i].pipeline.motion_module = model_config.motion_module
              /\ AsMapping(calls[i].pipeline.lora_map) = AsMapping(model_config.lora_map)
              /\ calls[i].pipeline.base_model = base_model_path

\* run_inference is handed a reused pipeline built with another motion
\* module, base model and LoRA selection than the run's.
C18_Witness ==
    /\ InGenerate
    /\ pipeline_event = "reused"
    /\ Len(calls) > 0
    /\ calls[1].pipeline.motion_module /= model_config.motion_module
    /\ calls[1].pipeline.base_model /= base_model_path
    /\ AsMapping(calls[1].pipeline.lora_map) /= AsMapping(model_config.lora_map)

\* The names that are repo IDs: no directory of that name holds
\* model_index.json.
RepoIds == {name \in ModelNames : Resolve(name) \notin model_index}

\* C19 (as claimed): get_base_model returns the name unchanged when it is a
\* directory holding model_index.json, and otherwise local_dir / <last
\* segment of the name>, which then holds model_index.json; it downloads if
\* and only if the name is a repo ID and that directory lacks
\* model_index.json, and into that directory alone, so a later call for the
\* same repo ID downloads nothing; and two distinct repo IDs resolve to
\* distinct directories.
C19_BaseModelResolution ==
    /\ [](InGenerate =>
            IF args.model_name_or_path \in RepoIds
            THEN /\ base_model_path = Resolve(HfModelDir \o <<args.model_name_or_path[
                                                   Len(args.model_name_or_path)]>>)
                 /\ base_model_path \in model_index
            ELSE base_model_path = args.model_name_or_path)
    /\ [][(pc = "idle" /\ pc' = "pipeline") =>
            LET name == args'.model_name_or_path
                dir  == Resolve(HfModelDir \o <<name[Len(name)]>>)
            IN  /\ model_index' /= model_index <=> (name \in RepoIds /\ dir \notin model_index)
                /\ model_index' \subseteq model_index \cup {dir}
                /\ model_index \subseteq model_index']_vars
    /\ [](InGenerate =>
            \A other \in RepoIds :
                (args.model_name_or_path \in RepoIds /\ other /= args.model_name_or_path) =>
                    get_base_model(other, HfModelDir, model_index) /= base_model_path)

\* generate for other/stable-diffusion-v1-5 is given the directory that
\* runwayml/stable-diffusion-v1-5 resolves to, and builds its pipeline on it.
C19_Witness ==
    /\ InGenerate
    /\ args.model_name_or_path = <<"other", "stable-diffusion-v1-5">>
    /\ base_model_path = ModelSaveDir(<<"runwayml", "stable-diffusion-v1-5">>, HfModelDir)
    /\ g_pipeline.resident
    /\ g_pipeline.base_model = base_model_path

====
